---- MODULE Spec2Model ----
(***************************************************************************)
(* Model of app.py: one Streamlit script run of main_app, which calls      *)
(* get_authenticated_html (Playwright) and then extract_with_crawl4ai      *)
(* (temporary file + Crawl4AI backend).  The browser, the page, the file   *)
(* system, the secrets store and the extraction backend are environments:  *)
(* every outcome they can produce is a nondeterministic choice.            *)
(***************************************************************************)
EXTENDS Integers, Sequences, FiniteSets, TLC

VARIABLES
    pc,             \* position of the single cooperative task
    pressed,        \* st.button("Start Extraction") was pressed in this run
    li_at_cookie,   \* main_app: the password text input
    playwright,     \* async_playwright() context: "none" | "started" | "stopped"
    browser,        \* p.chromium.launch(): "none" | "open" | "closed"
    context,        \* browser.new_context() has been created
    cookies,        \* cookies installed in the browsing context
    pageOpen,       \* context.new_page() has been created
    navLog,         \* one entry per page.goto issued: the cookies held at that time
    current_url,    \* page.url after navigation (sequence of characters)
    dom,            \* what each candidate selector meets on the loaded page
    page_content,   \* what page.content() would return
    selector,       \* index into selectors_to_try of the for loop
    probed,         \* indices passed to page.query_selector, in order
    feed_html,      \* get_authenticated_html: local feed_html
    fetchRet,       \* how get_authenticated_html left: "none" | "value" | "raised"
    html_content,   \* main_app: value returned by get_authenticated_html
    exc,            \* exception in flight ("none" when there is none)
    reports,        \* every st.* message shown, in order
    status,         \* state of the st.status container
    statusLog,      \* every state passed to status.update, in order
    tmpFile,        \* the NamedTemporaryFile: "none" | "exists" | "deleted"
    tmpContent,     \* what has been written to the temporary file
    unlinkErrors,   \* OSErrors raised by os.unlink and swallowed
    backendArgs,    \* arguments handed to the extraction backend
    results,        \* what crawler.arun returned
    extractRet,     \* how extract_with_crawl4ai left: "none" | "value" | "raised"
    extracted_data, \* main_app: value returned by extract_with_crawl4ai
    post            \* index of the formatted-output loop

vars == <<pc, pressed, li_at_cookie, playwright, browser, context, cookies,
          pageOpen, navLog, current_url, dom, page_content, selector, probed,
          feed_html, fetchRet, html_content, exc, reports, status, statusLog, tmpFile,
          tmpContent, unlinkErrors, backendArgs, results, extractRet,
          extracted_data, post>>

(***************************************************************************)
(* Bounds of the model.                                                    *)
(***************************************************************************)
MaxResults == 2     \* result objects one crawler.arun call may yield

(***************************************************************************)
(* Values.                                                                 *)
(***************************************************************************)
\* Python's "str or None".
NoneStr == [some |-> FALSE, text |-> ""]
Str(t) == [some |-> TRUE, text |-> t]

\* Python truthiness of a "str or None": None and "" are both falsy.
TruthyStr(o) == o.some /\ o.text # ""

\* A string that the utf-8 codec cannot encode (a lone surrogate).
Unencodable == "\\udc80"

Markups == {"", "<li>post</li>", "<div>feed</div>", Unencodable}
PageMarkups == {"<html>full page</html>", Unencodable}
Credentials == {"", "AQEDAT-one", "AQEDAT-two"}

selectors_to_try ==
    << "ul.display-flex.flex-wrap.list-style-none.justify-center",
       ".scaffold-finite-scroll__content",
       ".application-outlet main" >>

NumSelectors == Len(selectors_to_try)

\* What page.query_selector / inner_html can do for one selector.
NoElement == [query |-> "none", inner_ok |-> FALSE, markup |-> ""]
DomEntries ==
    { NoElement,
      [query |-> "raise", inner_ok |-> FALSE, markup |-> ""],
      [query |-> "element", inner_ok |-> FALSE, markup |-> ""] }
    \cup { [query |-> "element", inner_ok |-> TRUE, markup |-> m] : m \in Markups }

\* Post-navigation URLs, as sequences of characters.
UrlFeed == << "/", "i", "n", "/", "k", "k", "/", "a", "l", "l", "/" >>
UrlLogin == << "/", "u", "a", "s", "/", "l", "o", "g", "i", "n" >>
UrlCheckpoint == << "/", "c", "h", "e", "c", "k", "p", "o", "i", "n", "t", "/", "l", "g" >>
UrlHandle == << "/", "i", "n", "/", "l", "o", "g", "i", "n", "o", "v", "/" >>
Urls == {UrlFeed, UrlLogin, UrlCheckpoint, UrlHandle}

LoginPattern == << "l", "o", "g", "i", "n" >>
CheckpointPattern == << "c", "h", "e", "c", "k", "p", "o", "i", "n", "t" >>

\* Python's  w in u  on strings: w occurs as a contiguous substring of u.
Contains(w, u) ==
    \E k \in 0..(Len(u) - Len(w)) : \A j \in 1..Len(w) : u[k + j] = w[j]

RedirectedToLogin(u) == Contains(LoginPattern, u) \/ Contains(CheckpointPattern, u)

\* The cookie get_authenticated_html installs.
LiAtCookie(value) ==
    [name |-> "li_at", value |-> value, domain |-> ".linkedin.com", path |-> "/"]

(***************************************************************************)
(* JSON values, as json.loads yields them.                                 *)
(***************************************************************************)
NoData == [kind |-> "none", items |-> << >>]           \* Python None
EmptyList == [kind |-> "list", items |-> << >>]        \* []
Rec(name) == [kind |-> "dict", name |-> name]          \* {"company_name": name}
Txt(name) == [kind |-> "str", name |-> name]           \* "name"

JsonAcme == "[{\"company_name\":\"Acme\"}]"
JsonTwo == "[{\"company_name\":\"Acme\"},{\"company_name\":\"Initech\"}]"
JsonStrings == "[{\"company_name\":\"Acme\"},\"Initech\"]"
JsonObject == "{\"error\":\"rate limit\"}"
JsonEmpty == "[]"
JsonNull == "null"
NotJson == "not json"

ContentTexts == {JsonAcme, JsonTwo, JsonStrings, JsonObject, JsonEmpty, JsonNull, NotJson}

ValidJson(t) == t \in {JsonAcme, JsonTwo, JsonStrings, JsonObject, JsonEmpty, JsonNull}

\* json.loads on a text for which ValidJson holds.
JsonLoads(t) ==
    CASE t = JsonAcme -> [kind |-> "list", items |-> << Rec("Acme") >>]
      [] t = JsonTwo -> [kind |-> "list", items |-> << Rec("Acme"), Rec("Initech") >>]
      [] t = JsonStrings -> [kind |-> "list", items |-> << Rec("Acme"), Txt("Initech") >>]
      [] t = JsonObject -> [kind |-> "dict", items |-> << Txt("error") >>]
      [] t = JsonEmpty -> EmptyList
      [] t = JsonNull -> NoData

\* Python truthiness of a parsed value; iterating a dict yields its keys.
TruthyData(d) == d.kind \in {"list", "dict"} /\ Len(d.items) > 0

\* The result objects of the backend.
ResultObjects ==
    { [success |-> FALSE, extracted_content |-> NoneStr] }
    \cup { [success |-> TRUE, extracted_content |-> c] :
             c \in {NoneStr} \cup { Str(t) : t \in ContentTexts } }

RECURSIVE SeqsUpTo(_, _)
SeqsUpTo(S, n) ==
    IF n = 0 THEN { << >> }
    ELSE LET shorter == SeqsUpTo(S, n - 1)
         IN  shorter \cup { Append(s, x) : s \in { t \in shorter : Len(t) = n - 1 }, x \in S }

(***************************************************************************)
(* The reporter (st.status / st.success / st.error / st.json / ...).       *)
(***************************************************************************)
Msg(level, text) == [level |-> level, text |-> text, raw |-> "", data |-> NoData]
MsgRaw(level, text, raw) == [level |-> level, text |-> text, raw |-> raw, data |-> NoData]
MsgData(level, text, data) == [level |-> level, text |-> text, raw |-> "", data |-> data]

Init ==
    /\ pc = "idle"
    /\ pressed = FALSE
    /\ li_at_cookie \in Credentials
    /\ playwright = "none"
    /\ browser = "none"
    /\ context = FALSE
    /\ cookies = {}
    /\ pageOpen = FALSE
    /\ navLog = << >>
    /\ current_url = << >>
    /\ dom = [s \in 1..NumSelectors |-> NoElement]
    /\ page_content = ""
    /\ selector = 1
    /\ probed = << >>
    /\ feed_html = NoneStr
    /\ fetchRet = "none"
    /\ html_content = NoneStr
    /\ exc = "none"
    /\ reports = << >>
    /\ status = "none"
    /\ statusLog = << >>
    /\ tmpFile = "none"
    /\ tmpContent = << >>
    /\ unlinkErrors = 0
    /\ backendArgs = << >>
    /\ results = << >>
    /\ extractRet = "none"
    /\ extracted_data = NoData
    /\ post = 1

Report(m) == reports' = Append(reports, m)

\* Variable groups, for UNCHANGED.
uiVars == <<reports, status, statusLog>>
browserVars == <<playwright, browser, context, cookies, pageOpen, navLog>>
pageVars == <<current_url, dom, page_content>>
probeVars == <<selector, probed, feed_html, fetchRet>>
extractVars == <<tmpFile, tmpContent, unlinkErrors, backendArgs, results, extractRet>>
mainVars == <<pressed, li_at_cookie, html_content, extracted_data, post>>

(***************************************************************************)
(* main_app, up to the call of get_authenticated_html.                     *)
(***************************************************************************)
\* The script renders the form and the button is not pressed: nothing runs.
NoPress ==
    /\ pc = "idle"
    /\ pc' = "done"
    /\ UNCHANGED <<browserVars, pageVars, probeVars, extractVars, mainVars, uiVars, exc>>

\* Button pressed without a cookie: an error is shown and the run ends.
PressWithoutCookie ==
    /\ pc = "idle"
    /\ li_at_cookie = ""
    /\ pressed' = TRUE
    /\ Report(Msg("error", "Please enter your 'li_at' cookie."))
    /\ pc' = "done"
    /\ UNCHANGED <<browserVars, pageVars, probeVars, extractVars, exc, status,
                   statusLog, li_at_cookie, html_content, extracted_data, post>>

\* Button pressed with a cookie: the status container opens and the fetch starts.
Press ==
    /\ pc = "idle"
    /\ li_at_cookie # ""
    /\ pressed' = TRUE
    /\ status' = "running"
    /\ pc' = "f_enter"
    /\ UNCHANGED <<browserVars, pageVars, probeVars, extractVars, exc, reports,
                   statusLog, li_at_cookie, html_content, extracted_data, post>>

(***************************************************************************)
(* get_authenticated_html.                                                 *)
(***************************************************************************)
\* An exception raised inside the  async with  body.
FetchRaise(name) ==
    /\ exc' = name
    /\ pc' = "f_exit"

\* async with async_playwright() as p
AEnter ==
    /\ pc = "f_enter"
    /\ playwright' = "started"
    /\ pc' = "f_launch"
    /\ UNCHANGED <<browser, context, cookies, pageOpen, navLog, pageVars, probeVars,
                   extractVars, mainVars, uiVars, exc>>

\* browser = await p.chromium.launch(headless=True)
Launch ==
    /\ pc = "f_launch"
    /\ browser' = "open"
    /\ pc' = "f_ctx"
    /\ UNCHANGED <<playwright, context, cookies, pageOpen, navLog, pageVars, probeVars,
                   extractVars, mainVars, uiVars, exc>>

LaunchRaises ==
    /\ pc = "f_launch"
    /\ FetchRaise("LaunchError")
    /\ UNCHANGED <<browserVars, pageVars, probeVars, extractVars, mainVars, uiVars>>

\* context = await browser.new_context()
NewContext ==
    /\ pc = "f_ctx"
    /\ context' = TRUE
    /\ pc' = "f_cookie"
    /\ UNCHANGED <<playwright, browser, cookies, pageOpen, navLog, pageVars, probeVars,
                   extractVars, mainVars, uiVars, exc>>

NewContextRaises ==
    /\ pc = "f_ctx"
    /\ FetchRaise("ContextError")
    /\ UNCHANGED <<browserVars, pageVars, probeVars, extractVars, mainVars, uiVars>>

\* A cookie jar that never receives the li_at cookie.
AddCookiesSkipped ==
    /\ pc = "f_cookie"
    /\ pc' = "f_page"
    /\ UNCHANGED <<browserVars, pageVars, probeVars, extractVars, mainVars, uiVars, exc>>

\* await context.add_cookies([{name, value, domain, path}])
AddCookies ==
    /\ pc = "f_cookie"
    /\ cookies' = cookies \cup {LiAtCookie(li_at_cookie)}
    /\ pc' = "f_page"
    /\ UNCHANGED <<playwright, browser, context, pageOpen, navLog, pageVars, probeVars,
                   extractVars, mainVars, uiVars, exc>>

AddCookiesRaises ==
    /\ pc = "f_cookie"
    /\ FetchRaise("CookieError")
    /\ UNCHANGED <<browserVars, pageVars, probeVars, extractVars, mainVars, uiVars>>

\* page = await context.new_page()
NewPage ==
    /\ pc = "f_page"
    /\ pageOpen' = TRUE
    /\ pc' = "f_goto"
    /\ UNCHANGED <<playwright, browser, context, cookies, navLog, pageVars, probeVars,
                   extractVars, mainVars, uiVars, exc>>

NewPageRaises ==
    /\ pc = "f_page"
    /\ FetchRaise("PageError")
    /\ UNCHANGED <<browserVars, pageVars, probeVars, extractVars, mainVars, uiVars>>

LoadingMsg == Msg("status", "Loading LinkedIn with Playwright...")

\* st.status(...); await page.goto(url, wait_until="networkidle", timeout=60000);
\* await asyncio.sleep(5).  The page that loads is the environment's choice.
Goto ==
    /\ pc = "f_goto"
    /\ Report(LoadingMsg)
    /\ navLog' = Append(navLog, cookies)
    /\ current_url' \in Urls
    /\ dom' \in [1..NumSelectors -> DomEntries]
    /\ page_content' \in PageMarkups
    /\ pc' = "f_check"
    /\ UNCHANGED <<playwright, browser, context, cookies, pageOpen, probeVars,
                   extractVars, mainVars, status, statusLog, exc>>

\* page.goto exceeds its timeout.
GotoTimesOut ==
    /\ pc = "f_goto"
    /\ Report(LoadingMsg)
    /\ navLog' = Append(navLog, cookies)
    /\ FetchRaise("TimeoutError")
    /\ UNCHANGED <<playwright, browser, context, cookies, pageOpen, pageVars, probeVars,
                   extractVars, mainVars, status, statusLog>>

\* An error message that quotes the cookie it complains about.
AuthFailureMsgQuotingCookie ==
    MsgRaw("error", "LinkedIn redirected to login - cookie is expired or invalid:",
           li_at_cookie)

\* st.error("LinkedIn redirected to login - cookie is expired or invalid!")
AuthFailureMsg ==
    Msg("error", "LinkedIn redirected to login - cookie is expired or invalid!")

\* current_url = page.url; if "login" in current_url or "checkpoint" in current_url:
\*     st.error(...); await browser.close(); return None
CheckUrl ==
    /\ pc = "f_check"
    /\ IF RedirectedToLogin(current_url)
       THEN /\ Report(AuthFailureMsg)
            /\ browser' = "closed"
            /\ html_content' = NoneStr
            /\ pc' = "f_exit"
       ELSE /\ pc' = "f_probe"
            /\ UNCHANGED <<reports, browser, html_content>>
    /\ selector' = 1
    /\ feed_html' = NoneStr
    /\ UNCHANGED <<playwright, context, cookies, pageOpen, navLog, pageVars, probed,
                   fetchRet, extractVars, pressed, li_at_cookie, extracted_data, post,
                   status, statusLog, exc>>

FoundMsg(s) == MsgRaw("success", "Found feed container with selector:", selectors_to_try[s])

\* The position after one pass of the for loop that did not break.
NextSelector(s) == IF s < NumSelectors THEN "f_probe" ELSE "f_fallback"

\* A probe whose exception is not caught.
ProbeUncaught ==
    /\ pc = "f_probe"
    /\ probed' = Append(probed, selector)
    /\ LET e == dom[selector]
       IN  IF e.query = "element" /\ e.inner_ok
           THEN /\ feed_html' = Str(e.markup)
                /\ Report(FoundMsg(selector))
                /\ pc' = "f_fallback"
                /\ UNCHANGED <<selector, exc>>
           ELSE IF e.query = "none"
           THEN /\ selector' = selector + 1
                /\ pc' = NextSelector(selector)
                /\ UNCHANGED <<feed_html, reports, exc>>
           ELSE /\ FetchRaise("SelectorError")
                /\ UNCHANGED <<feed_html, reports, selector>>
    /\ UNCHANGED <<browserVars, pageVars, fetchRet, extractVars, mainVars, status, statusLog>>

\* One pass of  for selector in selectors_to_try:  try: query_selector; if
\* feed_element: inner_html, st.success, break;  except Exception: continue
Probe ==
    /\ pc = "f_probe"
    /\ probed' = Append(probed, selector)
    /\ LET e == dom[selector]
       IN  IF e.query = "element" /\ e.inner_ok
           THEN /\ feed_html' = Str(e.markup)
                /\ Report(FoundMsg(selector))
                /\ pc' = "f_fallback"
                /\ UNCHANGED selector
           ELSE /\ selector' = selector + 1
                /\ pc' = NextSelector(selector)
                /\ UNCHANGED <<feed_html, reports>>
    /\ UNCHANGED <<browserVars, pageVars, fetchRet, extractVars, mainVars, status,
                   statusLog, exc>>

FallbackMsg == Msg("warning", "No specific container found, using full page HTML.")

\* if not feed_html: st.warning(...); feed_html = await page.content()
Fallback ==
    /\ pc = "f_fallback"
    /\ IF ~TruthyStr(feed_html)
       THEN /\ Report(FallbackMsg)
            /\ feed_html' = Str(page_content)
       ELSE UNCHANGED <<reports, feed_html>>
    /\ pc' = "f_close"
    /\ UNCHANGED <<browserVars, pageVars, selector, probed, fetchRet, extractVars,
                   mainVars, status, statusLog, exc>>

\* page.content() raises.
FallbackRaises ==
    /\ pc = "f_fallback"
    /\ ~TruthyStr(feed_html)
    /\ Report(FallbackMsg)
    /\ FetchRaise("ContentError")
    /\ UNCHANGED <<browserVars, pageVars, probeVars, extractVars, mainVars, status,
                   statusLog>>

\* await browser.close(); return feed_html
CloseAndReturn ==
    /\ pc = "f_close"
    /\ browser' = "closed"
    /\ html_content' = feed_html
    /\ pc' = "f_exit"
    /\ UNCHANGED <<playwright, context, cookies, pageOpen, navLog, pageVars, probeVars,
                   extractVars, pressed, li_at_cookie, extracted_data, post, uiVars, exc>>

\* The frame of get_authenticated_html is left: the page object and the
\* locals selector and feed_html are gone.
LeaveFrame ==
    /\ fetchRet' = IF exc = "none" THEN "value" ELSE "raised"
    /\ pc' = IF exc = "none" THEN "m_fetched" ELSE "m_except"
    /\ current_url' = << >>
    /\ dom' = [s \in 1..NumSelectors |-> NoElement]
    /\ page_content' = ""
    /\ selector' = 1
    /\ feed_html' = NoneStr

\* Leaving the  async with  block without stopping Playwright.
AExitLeak ==
    /\ pc = "f_exit"
    /\ LeaveFrame
    /\ UNCHANGED <<browserVars, probed, extractVars, mainVars, uiVars, exc>>

\* Leaving the  async with  block, by return or by exception: Playwright stops
\* and takes down every browser it launched.
AExit ==
    /\ pc = "f_exit"
    /\ playwright' = "stopped"
    /\ browser' = IF browser = "open" THEN "closed" ELSE browser
    /\ LeaveFrame
    /\ UNCHANGED <<context, cookies, pageOpen, navLog, probed, extractVars, mainVars,
                   uiVars, exc>>

(***************************************************************************)
(* main_app, between the two calls.                                        *)
(***************************************************************************)
\* extract_with_crawl4ai is called whatever get_authenticated_html returned.
AfterFetchUnguarded ==
    /\ pc = "m_fetched"
    /\ pc' = "e_write"
    /\ UNCHANGED <<browserVars, pageVars, probeVars, extractVars, mainVars, uiVars, exc>>

\* html_content = await get_authenticated_html(...); if html_content: extract
AfterFetch ==
    /\ pc = "m_fetched"
    /\ pc' = IF TruthyStr(html_content) THEN "e_write" ELSE "done"
    /\ UNCHANGED <<browserVars, pageVars, probeVars, extractVars, mainVars, uiVars, exc>>

(***************************************************************************)
(* extract_with_crawl4ai.                                                  *)
(***************************************************************************)
GroqKey == "gsk-secret"
FileUrl == << "file://", "/tmp/tmpfile.html" >>

\* f"<html><body>{html_content}</body></html>"
Wrap(html) == << "<html><body>", html, "</body></html>" >>

\* with tempfile.NamedTemporaryFile(mode='w', suffix='.html', delete=False,
\* encoding='utf-8') as f: f.write(...); temp_html_path = f.name
\* The file is created; a text the codec cannot encode makes f.write raise,
\* outside the try block.
WriteTemp ==
    /\ pc = "e_write"
    /\ tmpFile' = "exists"
    /\ IF html_content.text = Unencodable
       THEN /\ exc' = "UnicodeEncodeError"
            /\ extractRet' = "raised"
            /\ pc' = "m_except"
            /\ UNCHANGED tmpContent
       ELSE /\ tmpContent' = Wrap(html_content.text)
            /\ pc' = "e_secret"
            /\ UNCHANGED <<exc, extractRet>>
    /\ UNCHANGED <<browserVars, pageVars, probeVars, unlinkErrors, backendArgs, results,
                   mainVars, uiVars>>

\* Another process removes the temporary file while the call is running.
TempCleaner ==
    /\ pc \in {"e_secret", "e_run", "e_loop", "e_finally"}
    /\ tmpFile = "exists"
    /\ tmpFile' = "deleted"
    /\ UNCHANGED <<pc, browserVars, pageVars, probeVars, tmpContent, unlinkErrors,
                   backendArgs, results, extractRet, mainVars, uiVars, exc>>

\* An exception raised inside the try block: control goes to the finally clause.
ExtractRaise(name) ==
    /\ exc' = name
    /\ pc' = "e_finally"

\* llm_api_key = st.secrets["GROQ_API_KEY"]
SecretFound ==
    /\ pc = "e_secret"
    /\ pc' = "e_run"
    /\ UNCHANGED <<browserVars, pageVars, probeVars, extractVars, mainVars, uiVars, exc>>

SecretMissing ==
    /\ pc = "e_secret"
    /\ ExtractRaise("KeyError")
    /\ UNCHANGED <<browserVars, pageVars, probeVars, extractVars, mainVars, uiVars>>

RunningMsg == Msg("status", "Running Crawl4AI extraction...")

BackendCall == [url |-> FileUrl, api_token |-> GroqKey, extract_type |-> "schema"]

\* st.status(...); async with AsyncWebCrawler() as crawler:
\*     results = await crawler.arun(url=file_url, config=config)
RunBackend ==
    /\ pc = "e_run"
    /\ Report(RunningMsg)
    /\ backendArgs' = Append(backendArgs, BackendCall)
    /\ results' \in SeqsUpTo(ResultObjects, MaxResults)
    /\ pc' = "e_loop"
    /\ UNCHANGED <<browserVars, pageVars, probeVars, tmpFile, tmpContent, unlinkErrors,
                   extractRet, mainVars, status, statusLog, exc>>

\* crawler.arun (or the crawler's start-up) raises.
BackendRaises ==
    /\ pc = "e_run"
    /\ Report(RunningMsg)
    /\ backendArgs' = Append(backendArgs, BackendCall)
    /\ ExtractRaise("BackendError")
    /\ UNCHANGED <<browserVars, pageVars, probeVars, tmpFile, tmpContent, unlinkErrors,
                   results, extractRet, mainVars, status, statusLog>>

\* for result in results:  with no result object the loop body never runs and
\* the function falls off its end: the return value is None.
LoopEmpty ==
    /\ pc = "e_loop"
    /\ results = << >>
    /\ extracted_data' = NoData
    /\ pc' = "e_finally"
    /\ UNCHANGED <<browserVars, pageVars, probeVars, extractVars, pressed, li_at_cookie,
                   html_content, post, uiVars, exc>>

\* if result.success: data = json.loads(result.extracted_content);
\*     st.success(...); return data
ResultParsed ==
    /\ pc = "e_loop"
    /\ results # << >>
    /\ results[1].success
    /\ results[1].extracted_content.some
    /\ ValidJson(results[1].extracted_content.text)
    /\ Report(Msg("success", "Crawl4AI extraction successful!"))
    /\ extracted_data' = JsonLoads(results[1].extracted_content.text)
    /\ pc' = "e_finally"
    /\ UNCHANGED <<browserVars, pageVars, probeVars, extractVars, pressed, li_at_cookie,
                   html_content, post, status, statusLog, exc>>

ParseErrorMsg == Msg("error", "Failed to parse Crawl4AI JSON output.")

\* A JSONDecodeError that no handler catches.
ParseFailedUncaught ==
    /\ pc = "e_loop"
    /\ results # << >>
    /\ results[1].success
    /\ results[1].extracted_content.some
    /\ ~ValidJson(results[1].extracted_content.text)
    /\ ExtractRaise("JSONDecodeError")
    /\ UNCHANGED <<browserVars, pageVars, probeVars, extractVars, mainVars, uiVars>>

\* A JSONDecodeError handler that keeps the raw content to itself.
ParseFailedSilent ==
    /\ pc = "e_loop"
    /\ results # << >>
    /\ results[1].success
    /\ results[1].extracted_content.some
    /\ ~ValidJson(results[1].extracted_content.text)
    /\ Report(ParseErrorMsg)
    /\ extracted_data' = EmptyList
    /\ pc' = "e_finally"
    /\ UNCHANGED <<browserVars, pageVars, probeVars, extractVars, pressed, li_at_cookie,
                   html_content, post, status, statusLog, exc>>

\* except json.JSONDecodeError: st.error(...);
\*     st.json({"raw_content": result.extracted_content}); return []
ParseFailed ==
    /\ pc = "e_loop"
    /\ results # << >>
    /\ results[1].success
    /\ results[1].extracted_content.some
    /\ ~ValidJson(results[1].extracted_content.text)
    /\ reports' = reports \o
          << ParseErrorMsg,
             MsgRaw("json", "raw_content", results[1].extracted_content.text) >>
    /\ extracted_data' = EmptyList
    /\ pc' = "e_finally"
    /\ UNCHANGED <<browserVars, pageVars, probeVars, extractVars, pressed, li_at_cookie,
                   html_content, post, status, statusLog, exc>>

\* json.loads(None) raises TypeError, which  except json.JSONDecodeError  does
\* not catch.
ParseTypeError ==
    /\ pc = "e_loop"
    /\ results # << >>
    /\ results[1].success
    /\ ~results[1].extracted_content.some
    /\ ExtractRaise("TypeError")
    /\ UNCHANGED <<browserVars, pageVars, probeVars, extractVars, mainVars, uiVars>>

\* else: st.error("Crawl4AI extraction failed."); return []
ResultFailed ==
    /\ pc = "e_loop"
    /\ results # << >>
    /\ ~results[1].success
    /\ Report(Msg("error", "Crawl4AI extraction failed."))
    /\ extracted_data' = EmptyList
    /\ pc' = "e_finally"
    /\ UNCHANGED <<browserVars, pageVars, probeVars, extractVars, pressed, li_at_cookie,
                   html_content, post, status, statusLog, exc>>

\* finally: try: os.unlink(temp_html_path) except OSError: pass
\* and then the return, or the exception, leaves the function.
Unlink ==
    /\ pc = "e_finally"
    /\ IF tmpFile = "exists"
       THEN /\ tmpFile' = "deleted"
            /\ UNCHANGED unlinkErrors
       ELSE /\ unlinkErrors' = unlinkErrors + 1
            /\ UNCHANGED tmpFile
    /\ extractRet' = IF exc = "none" THEN "value" ELSE "raised"
    /\ pc' = IF exc = "none" THEN "m_extracted" ELSE "m_except"
    /\ UNCHANGED <<browserVars, pageVars, probeVars, tmpContent, backendArgs, results,
                   mainVars, uiVars, exc>>

(***************************************************************************)
(* main_app, after extract_with_crawl4ai.                                  *)
(***************************************************************************)
\* status.update(label="Extraction Complete!", state="complete");
\* if extracted_data: st.header; st.json(extracted_data); st.header
\* else: st.error("No data was extracted...")
MarkComplete ==
    /\ pc = "m_extracted"
    /\ status' = "complete"
    /\ statusLog' = Append(statusLog, "complete")
    /\ IF TruthyData(extracted_data)
       THEN /\ reports' = reports \o
                 << Msg("header", "Final Results"),
                    MsgData("json", "", extracted_data),
                    Msg("header", "Formatted Output") >>
            /\ pc' = "m_loop"
       ELSE /\ Report(Msg("error", "No data was extracted. Check the logs above for details."))
            /\ pc' = "done"
    /\ post' = 1
    /\ UNCHANGED <<browserVars, pageVars, probeVars, extractVars, pressed, li_at_cookie,
                   html_content, extracted_data, exc>>

PostMsg(p) == MsgData("write", "Post", [kind |-> "list", items |-> << p >>])

\* for i, post in enumerate(extracted_data): st.subheader; st.write(post.get(...))
FormatPost ==
    /\ pc = "m_loop"
    /\ post <= Len(extracted_data.items)
    /\ extracted_data.items[post].kind = "dict"
    /\ reports' = reports \o
          << Msg("subheader", "Post"), PostMsg(extracted_data.items[post]) >>
    /\ post' = post + 1
    /\ UNCHANGED <<pc, browserVars, pageVars, probeVars, extractVars, pressed,
                   li_at_cookie, html_content, extracted_data, status, statusLog, exc>>

\* An element that is not a mapping has no .get: AttributeError, after the
\* subheader of that post has been shown.
FormatPostRaises ==
    /\ pc = "m_loop"
    /\ post <= Len(extracted_data.items)
    /\ extracted_data.items[post].kind # "dict"
    /\ Report(Msg("subheader", "Post"))
    /\ exc' = "AttributeError"
    /\ pc' = "m_except"
    /\ UNCHANGED <<browserVars, pageVars, probeVars, extractVars, mainVars, status,
                   statusLog>>

\* The loop is exhausted: the run is over.
FormatDone ==
    /\ pc = "m_loop"
    /\ post > Len(extracted_data.items)
    /\ pc' = "done"
    /\ UNCHANGED <<browserVars, pageVars, probeVars, extractVars, mainVars, uiVars, exc>>

\* except Exception as e: st.exception(e);
\*     status.update(label="An error occurred", state="error", expanded=True)
HandleException ==
    /\ pc = "m_except"
    /\ Report(MsgRaw("exception", "", exc))
    /\ status' = "error"
    /\ statusLog' = Append(statusLog, "error")
    /\ pc' = "done"
    /\ UNCHANGED <<browserVars, pageVars, probeVars, extractVars, mainVars, exc>>

Next ==
    \/ NoPress \/ PressWithoutCookie \/ Press
    \/ AEnter \/ Launch \/ LaunchRaises \/ NewContext \/ NewContextRaises
    \/ AddCookies \/ AddCookiesRaises \/ NewPage \/ NewPageRaises
    \/ Goto \/ GotoTimesOut \/ CheckUrl \/ Probe \/ Fallback \/ FallbackRaises
    \/ CloseAndReturn \/ AExit
    \/ AfterFetch
    \/ WriteTemp \/ TempCleaner \/ SecretFound \/ SecretMissing
    \/ RunBackend \/ BackendRaises
    \/ LoopEmpty \/ ResultParsed \/ ParseFailed \/ ParseTypeError \/ ResultFailed
    \/ Unlink
    \/ MarkComplete \/ FormatPost \/ FormatPostRaises \/ FormatDone
    \/ HandleException

Spec == Init /\ [][Next]_vars

(***************************************************************************)
(* Properties.                                                             *)
(***************************************************************************)
InReports(m) == \E k \in DOMAIN reports : reports[k] = m

ExtractPcs == {"e_write", "e_secret", "e_run", "e_loop", "e_finally"}

\* extract_with_crawl4ai has been entered in this run.
ExtractInvoked == pc \in ExtractPcs \/ tmpFile # "none" \/ extractRet # "none"

\* The first result object carries a string that json.loads accepts.
ParsedOk ==
    /\ results # << >>
    /\ results[1].success
    /\ results[1].extracted_content.some
    /\ ValidJson(results[1].extracted_content.text)

\* The first result object reports success with a string json.loads rejects.
ParseRejected ==
    /\ results # << >>
    /\ results[1].success
    /\ results[1].extracted_content.some
    /\ ~ValidJson(results[1].extracted_content.text)

\* The for loop over results has been left.
AfterLoop == pc \in {"e_finally", "m_extracted", "m_loop", "m_except", "done"}

\* C1 (as stated): whatever the secret lookup and the backend do once the
\* fragment is on disk, extract_with_crawl4ai never raises to its caller, and
\* whenever it returns without a successful parse it returns an empty sequence.
C1_NeverRaises ==
    tmpContent # << >> =>
       /\ extractRet # "raised"
       /\ (extractRet = "value" /\ ~ParsedOk) => extracted_data = EmptyList

ExtractExceptions == {"UnicodeEncodeError", "KeyError", "BackendError", "TypeError"}

\* C1 (amended): an exception leaves extract_with_crawl4ai only when writing
\* the temporary file, the secret lookup, the backend call, or json.loads on
\* absent content raises, and each of the last three does leave it; a reported
\* failure or a string that is not JSON never raises.  When the call returns
\* without a successful parse the value is empty: [] when the first result
\* object reports failure or carries invalid JSON, None when there is no
\* result object.  After a successful parse the value is the parsed content.
C1_RaisesOnlyFromCollaborators ==
    /\ extractRet = "raised" => exc \in ExtractExceptions
    /\ (extractRet # "none" /\ backendArgs = << >> /\ tmpContent # << >>)
          => (extractRet = "raised" /\ exc = "KeyError")
    /\ (extractRet # "none" /\ backendArgs # << >> /\ results = << >>)
          => \/ extractRet = "raised" /\ exc = "BackendError"
             \/ extractRet = "value" /\ extracted_data = NoData
    /\ (extractRet # "none" /\ results # << >>) =>
          IF results[1].success /\ ~results[1].extracted_content.some
          THEN extractRet = "raised" /\ exc = "TypeError"
          ELSE /\ extractRet = "value"
               /\ extracted_data = IF ParsedOk
                                   THEN JsonLoads(results[1].extracted_content.text)
                                   ELSE EmptyList

\* C1 witness: the secret is missing and the exception has left the call.
C1_Witness == extractRet = "raised" /\ exc = "KeyError" /\ tmpFile = "deleted"

\* C2: whenever a call to extract_with_crawl4ai has finished, by return or by
\* exception, the temporary file it created no longer exists, and no OSError
\* of the cleanup has left the call.
C2_TempFileGone ==
    extractRet # "none" => (tmpFile = "deleted" /\ exc # "OSError")

\* C3: a login or checkpoint pattern in the post-navigation URL ends
\* get_authenticated_html with the auth-failure outcome (None) with no selector
\* probed and extract_with_crawl4ai is never invoked in that run;
\* extract_with_crawl4ai is invoked only after get_authenticated_html has
\* returned a non-empty fragment.
C3_AuthFailureStopsRun ==
    /\ (current_url # << >> /\ RedirectedToLogin(current_url) /\ pc # "f_check")
          => /\ pc = "f_exit"
             /\ exc = "none"
             /\ html_content = NoneStr
             /\ InReports(AuthFailureMsg)
    /\ InReports(AuthFailureMsg)
          => /\ probed = << >>
             /\ ~ExtractInvoked
             /\ fetchRet # "raised"
             /\ html_content = NoneStr
    /\ ExtractInvoked => (fetchRet = "value" /\ TruthyStr(html_content))

\* C3 witness: a run that ended after a redirect to the login page.
C3_Witness == pc = "done" /\ InReports(AuthFailureMsg) /\ fetchRet = "value"

\* C4: once get_authenticated_html has finished, by return, by auth failure
\* or by exception, the browser it launched is no longer open.
C4_BrowserTornDown ==
    fetchRet # "none" => (browser # "open" /\ playwright = "stopped")

\* C4 witness: navigation timed out after the browser was launched, and the
\* browser is closed once the exception has left.
C4_Witness == fetchRet = "raised" /\ exc = "TimeoutError" /\ browser = "closed"

\* The page is authenticated and some candidate selector meets an element.
FirstPresent == CHOOSE s \in 1..NumSelectors :
    /\ dom[s].query = "element"
    /\ \A t \in 1..(s - 1) : dom[t].query # "element"

\* C5: when get_authenticated_html returns from an authenticated page on which
\* some candidate selector meets an element, the fragment is the inner markup
\* of the earliest such element, whatever that markup is, no later candidate
\* was probed, and the full-page fallback was not taken.
C5_FirstMatchWins ==
    (/\ pc = "f_exit"
     /\ exc = "none"
     /\ ~RedirectedToLogin(current_url)
     /\ \E s \in 1..NumSelectors : dom[s].query = "element"
     /\ dom[FirstPresent].inner_ok)
       => /\ html_content = Str(dom[FirstPresent].markup)
          /\ Len(probed) = FirstPresent
          /\ ~InReports(FallbackMsg)

\* A candidate that throws or meets no element.
Miss(s) == ~(dom[s].query = "element" /\ dom[s].inner_ok)

\* C6: a candidate that throws or meets no element is passed over: the
\* candidates are probed in order, every miss is followed by the next
\* candidate, no exception in flight stems from a probe, and when every
\* candidate misses the fragment returned is the full page markup.
C6_SelectorMissAbsorbed ==
    /\ \A k \in DOMAIN probed : probed[k] = k
    /\ exc \in {"none", "LaunchError", "ContextError", "CookieError", "PageError",
                "TimeoutError", "ContentError"} \cup ExtractExceptions
                \cup {"AttributeError"}
    /\ pc = "f_probe" => (selector = Len(probed) + 1 /\ \A s \in 1..Len(probed) : Miss(s))
    /\ (pc \in {"f_fallback", "f_close", "f_exit"} /\ ~RedirectedToLogin(current_url)
           /\ current_url # << >> /\ \A s \in 1..NumSelectors : Miss(s))
          => /\ Len(probed) = NumSelectors
             /\ exc \in {"none", "ContentError"}
             /\ pc = "f_close" => feed_html = Str(page_content)
             /\ (pc = "f_exit" /\ exc = "none") => html_content = Str(page_content)

\* C6 witness: one candidate threw, none resolved, and the full page is
\* being returned.
C6_Witness ==
    /\ pc = "f_exit"
    /\ exc = "none"
    /\ current_url = UrlFeed
    /\ \A s \in 1..NumSelectors : Miss(s)
    /\ \E s \in 1..NumSelectors : dom[s].query = "raise"
    /\ \E s \in 1..NumSelectors : dom[s].query = "none"
    /\ html_content = Str(page_content)

\* C7: when the result object the loop examines reports failure, the call
\* returns []; when it reports success with content that is not valid JSON,
\* the call returns [] and has reported the raw content; no record is
\* returned or displayed in either case.
C7_FailureGivesEmpty ==
    (AfterLoop /\ results # << >> /\ (~results[1].success \/ ParseRejected))
       => /\ extracted_data = EmptyList
          /\ pc # "m_loop"
          /\ exc = "none"
          /\ extractRet # "raised"
          /\ ParseRejected =>
                InReports(MsgRaw("json", "raw_content", results[1].extracted_content.text))
          /\ \A k \in DOMAIN reports : reports[k].data = NoData

\* C7 witness: the backend succeeded with "not json" and the run ended.
C7_Witness ==
    /\ pc = "done"
    /\ extractRet = "value"
    /\ ParseRejected
    /\ results[1].extracted_content.text = NotJson

C9_CookieBeforeNavigation ==
    /\ Len(navLog) <= 1
    /\ \A k \in DOMAIN navLog :
          \E c \in navLog[k] :
             /\ c.name = "li_at"
             /\ c.value = li_at_cookie
             /\ c.domain = ".linkedin.com"
             /\ c.path = "/"

\* C9 witness: the navigation has been issued.
C9_Witness == Len(navLog) = 1 /\ pc = "f_check"

\* Extraction records have been shown to the user.
RecordsDisplayed == \E k \in DOMAIN reports : reports[k].data # NoData

\* C10: an exception that leaves get_authenticated_html or
\* extract_with_crawl4ai ends the run marked errored, and a run marked errored
\* has displayed no extraction records and was never marked complete.
C10_ErrorNeverWithRecords ==
    /\ (pc = "done" /\ (fetchRet = "raised" \/ extractRet = "raised")) => status = "error"
    /\ status = "error" =>
          /\ ~RecordsDisplayed
          /\ \A k \in DOMAIN statusLog : statusLog[k] # "complete"
====
